---- MODULE Spec2Model ----
(***************************************************************************)
(* FullCourseGen: four FastAPI services in front of a generative model.    *)
(*   fullmcqgen.py            /predict-level, /generate-question           *)
(*   fullcoursegen.py         /generate-course                             *)
(*   contentlabelall.py       /detect-domain-from-file                     *)
(*   courserecommendataion.py /course-recommendation                       *)
(* Every handler is request scoped; each specification below follows one   *)
(* request of one endpoint from its arrival to its response.               *)
(***************************************************************************)
EXTENDS Integers, Sequences, FiniteSets, TLC

VARIABLES
    score,        \* QuizResult.score of the /predict-level request
    time_taken,   \* QuizResult.time_taken of the /predict-level request
    level         \* the UserLevel answered, "none" before the handler ran

levelVars == <<score, time_taken, level>>

VARIABLES
    rawText,      \* response.text of the model call whose reply is parsed
    fourText,     \* rawText as the Classifier and the Recommender normalize it
    regexText,    \* rawText as the generators normalize it
    fourAgain,    \* fourText put through the Classifier's normalization again
    regexAgain,   \* regexText put through the generators' normalization again
    normPc        \* "call", "replied", "normalized" or "renormalized"

textVars == <<rawText, fourText>>
normVars == <<regexText, fourAgain, regexAgain, normPc>>

VARIABLES
    recPc,        \* where recommend_course stands: "call", "replied", "done"
    recResponse   \* what the caller of /course-recommendation gets

recVars == <<recPc, recResponse>>

VARIABLES
    clsPc,        \* where detect_domain_from_file stands
    fileName,     \* os.path.basename(file_url), as its dot-separated pieces
    dlStatus,     \* response.status_code of the download, -1 before it
    modelCalls,   \* how many times model.generate_content was called
    clsResponse   \* what the caller of /detect-domain-from-file gets

clsVars == <<clsPc, fileName, dlStatus, modelCalls, clsResponse>>

VARIABLES
    pipeline,        \* "content" (/generate-course) or "mcq" (/generate-question)
    genPc,           \* where generate_course stands
    stubs,           \* course_structure["units"]: per stub, "titled" or "untitled"
    unit,            \* per stub, how far its get_unit_details call has come
    video,           \* per stub, unit_data["youtube_video_url"], "unset" before
    attempts,        \* per stub, how many times get_unit_details was called
    running,         \* the stub whose expansion holds the thread, 0 if none
    detailed_units,  \* the Content pipeline's list of expanded units
    genResponse      \* what the caller gets: status 0 while the request runs

genVars == <<pipeline, genPc, stubs, unit, video, attempts, running,
             detailed_units, genResponse>>

(***************************************************************************)
(* Bounds of the model.                                                    *)
(***************************************************************************)
\* time_taken ranges over 1..MaxTime (the code's threshold is 80)
MaxTime == 83
\* a skeleton holds at most MaxUnits unit stubs
MaxUnits == 5
\* a recommendation reply lists at most MaxObjs objects
MaxObjs == 2

(***************************************************************************)
(* A request of one endpoint leaves the state of the others as it was set. *)
(***************************************************************************)
\* no response yet
NoResponse == [status |-> 0, error |-> "none", units |-> <<>>]
RecNoResponse == [status |-> 0, error |-> "none", recommendations |-> <<>>]
NoBody == [filename |-> <<>>, domain |-> <<>>, subdomain |-> <<>>, explanation |-> <<>>]
ClsNoResponse == [status |-> 0, error |-> "none", body |-> NoBody]

vars == <<levelVars, textVars, normVars, recVars, clsVars, genVars>>

LevelIdle == score = 0 /\ time_taken = 1 /\ level = "none"
TextIdle == rawText = <<>> /\ fourText = <<>>
NormIdle == regexText = <<>> /\ fourAgain = <<>> /\ regexAgain = <<>> /\ normPc = "idle"
RecIdle == recPc = "idle" /\ recResponse = RecNoResponse
ClsIdle ==
    /\ clsPc = "idle"
    /\ fileName = <<>>
    /\ dlStatus = -1
    /\ modelCalls = 0
    /\ clsResponse = ClsNoResponse
GenIdle ==
    /\ pipeline = "none"
    /\ genPc = "idle"
    /\ stubs = <<>>
    /\ unit = <<>>
    /\ video = <<>>
    /\ attempts = <<>>
    /\ running = 0
    /\ detailed_units = <<>>
    /\ genResponse = NoResponse

LevelOthers == <<textVars, normVars, recVars, clsVars, genVars>>
NormOthers == <<levelVars, recVars, clsVars, genVars>>
RecOthers == <<levelVars, normVars, clsVars, genVars>>
ClsOthers == <<levelVars, normVars, recVars, genVars>>
GenOthers == <<levelVars, textVars, normVars, recVars, clsVars>>

(***************************************************************************)
(* /predict-level (fullmcqgen.py)                                          *)
(***************************************************************************)
\* QuizResult: score has ge=0, le=9 (the whole scores are taken);
\* time_taken has gt=0
Scores == 0..9
Times == 1..MaxTime

\* predict_user_level with the second branch also taken by slow high scores
predict_user_level_slow_is_intermediate(s, t) ==
    IF s >= 7 /\ t <= 80 THEN "Advanced"
    ELSE IF 4 <= s THEN "Intermediate"
    ELSE "Beginner"

predict_user_level(s, t) ==
    IF s >= 7 /\ t <= 80 THEN "Advanced"
    ELSE IF 4 <= s /\ s < 7 THEN "Intermediate"
    ELSE "Beginner"

LevelInit ==
    /\ score \in Scores
    /\ time_taken \in Times
    /\ level = "none"
    /\ TextIdle /\ NormIdle /\ RecIdle /\ ClsIdle /\ GenIdle

\* predict_level: the handler answers predict_user_level(score, time_taken)
predict_level ==
    /\ level = "none"
    /\ level' = predict_user_level(score, time_taken)
    /\ UNCHANGED <<score, time_taken>>
    /\ UNCHANGED LevelOthers

LevelNext == predict_level

(***************************************************************************)
(* Text: a str is a sequence of one-character strings.                     *)
(***************************************************************************)
\* the characters str.strip() and the JSON scanner treat as whitespace
IsWs(c) == c \in {" ", "\n"}

CharAt(s, i) == IF i \in 1..Len(s) THEN s[i] ELSE "EOF"

RECURSIVE LStrip(_)
LStrip(s) == IF s # <<>> /\ IsWs(Head(s)) THEN LStrip(Tail(s)) ELSE s

RECURSIVE RStrip(_)
RStrip(s) ==
    IF s # <<>> /\ IsWs(s[Len(s)]) THEN RStrip(SubSeq(s, 1, Len(s) - 1)) ELSE s

\* str.lstrip()
StripLeft(s) == LStrip(s)

\* str.strip()
Strip(s) == RStrip(LStrip(s))

\* s.startswith(p), s.endswith(p)
StartsWith(s, p) == Len(s) >= Len(p) /\ SubSeq(s, 1, Len(p)) = p
EndsWith(s, p) == Len(s) >= Len(p) /\ SubSeq(s, Len(s) - Len(p) + 1, Len(s)) = p

\* s[n:] and s[:-n]
DropFirst(s, n) == SubSeq(s, n + 1, Len(s))
DropLast(s, n) == SubSeq(s, 1, Len(s) - n)

\* The backtick (U+0060) and the apostrophe (U+0027) are written by name:
\* a literal one in a string would pair with a later prime when the module
\* is read.  Each is one character of the text like any other.
Backtick == "BACKTICK"
Apostrophe == "APOSTROPHE"

\* the markers the code looks for: the fence opener (three backticks and
\* json), the fence closer (three backticks), three apostrophes
FenceOpen == <<Backtick, Backtick, Backtick, "j", "s", "o", "n">>
FenceClose == <<Backtick, Backtick, Backtick>>
TripleQuote == <<Apostrophe, Apostrophe, Apostrophe>>

(***************************************************************************)
(* The normalization of the Classifier and the Recommender:                *)
(* strip, then four startswith/endswith tests, each on the previous result *)
(***************************************************************************)
\* the four tests without the leading strip()
RemoveMarkers(t0) ==
    LET t1 == IF StartsWith(t0, FenceOpen) THEN DropFirst(t0, 7) ELSE t0
        t2 == IF EndsWith(t1, FenceClose) THEN DropLast(t1, 3) ELSE t1
        t3 == IF StartsWith(t2, TripleQuote) THEN DropFirst(t2, 3) ELSE t2
        t4 == IF EndsWith(t3, TripleQuote) THEN DropLast(t3, 3) ELSE t3
    IN  t4

NormalizeFourStep(raw) == RemoveMarkers(Strip(raw))

(***************************************************************************)
(* The normalization of the generators:                                    *)
(* re.sub(r"^FENCEjson|FENCE$", "", text, flags=re.MULTILINE).strip(),     *)
(* FENCE being three backticks                                             *)
(***************************************************************************)
MatchAt(s, i, p) ==
    /\ i + Len(p) - 1 <= Len(s)
    /\ SubSeq(s, i, i + Len(p) - 1) = p

\* ^ under re.MULTILINE: at the start of the text or right after a newline
AtLineStart(s, i) == i = 1 \/ s[i - 1] = "\n"
\* $ under re.MULTILINE: at the end of the text or right before a newline
AtLineEnd(s, i) == i = Len(s) + 1 \/ CharAt(s, i) = "\n"

\* re.sub scans left to right and drops every non-overlapping match
RECURSIVE ReSub(_, _)
ReSub(s, i) ==
    IF i > Len(s) THEN <<>>
    ELSE IF AtLineStart(s, i) /\ MatchAt(s, i, FenceOpen) THEN ReSub(s, i + 7)
    ELSE IF MatchAt(s, i, FenceClose) /\ AtLineEnd(s, i + 3) THEN ReSub(s, i + 3)
    ELSE <<s[i]>> \o ReSub(s, i + 1)

NormalizeRegex(raw) == Strip(ReSub(raw, 1))

(***************************************************************************)
(* json.loads, as a scanner over the text.  Every operator takes the text  *)
(* and the index of the first character of what it scans, and answers the  *)
(* index after it, or 0 where the decoder raises JSONDecodeError.          *)
(* The model's texts hold no backslash, so strings have no escapes.        *)
(***************************************************************************)
Digits == {"0", "1", "2", "3", "4", "5", "6", "7", "8", "9"}

RECURSIVE SkipWs(_, _)
SkipWs(s, i) == IF IsWs(CharAt(s, i)) THEN SkipWs(s, i + 1) ELSE i

\* the characters of a string up to its closing quote; a raw newline is a
\* control character, which the decoder (strict) refuses
RECURSIVE ScanString(_, _)
ScanString(s, i) ==
    IF i > Len(s) \/ s[i] = "\n" THEN 0
    ELSE IF s[i] = "\"" THEN i + 1
    ELSE ScanString(s, i + 1)

RECURSIVE ScanDigits(_, _)
ScanDigits(s, i) == IF CharAt(s, i) \in Digits THEN ScanDigits(s, i + 1) ELSE i

\* an integer literal: 0, or a nonzero digit and more digits
ScanNumber(s, i) == IF s[i] = "0" THEN i + 1 ELSE ScanDigits(s, i + 1)

RECURSIVE ParseValue(_, _)
RECURSIVE ParseMembers(_, _)
RECURSIVE ParseElements(_, _)

\* "key" : value, then a comma and the next member or the closing brace
ParseMembers(s, i) ==
    IF CharAt(s, i) # "\"" THEN 0
    ELSE LET k == ScanString(s, i + 1)
             c == IF k = 0 THEN 0 ELSE SkipWs(s, k)
             v == IF c = 0 \/ CharAt(s, c) # ":" THEN 0
                  ELSE ParseValue(s, SkipWs(s, c + 1))
             e == IF v = 0 THEN 0 ELSE SkipWs(s, v)
         IN  IF e = 0 THEN 0
             ELSE IF CharAt(s, e) = "," THEN ParseMembers(s, SkipWs(s, e + 1))
             ELSE IF CharAt(s, e) = "}" THEN e + 1
             ELSE 0

\* value, then a comma and the next element or the closing bracket
ParseElements(s, i) ==
    LET v == ParseValue(s, i)
        e == IF v = 0 THEN 0 ELSE SkipWs(s, v)
    IN  IF e = 0 THEN 0
        ELSE IF CharAt(s, e) = "," THEN ParseElements(s, SkipWs(s, e + 1))
        ELSE IF CharAt(s, e) = "]" THEN e + 1
        ELSE 0

ParseValue(s, i) ==
    LET c == CharAt(s, i)
    IN  IF c = "{" THEN
            (IF CharAt(s, SkipWs(s, i + 1)) = "}" THEN SkipWs(s, i + 1) + 1
             ELSE ParseMembers(s, SkipWs(s, i + 1)))
        ELSE IF c = "[" THEN
            (IF CharAt(s, SkipWs(s, i + 1)) = "]" THEN SkipWs(s, i + 1) + 1
             ELSE ParseElements(s, SkipWs(s, i + 1)))
        ELSE IF c = "\"" THEN ScanString(s, i + 1)
        ELSE IF c \in Digits THEN ScanNumber(s, i)
        ELSE 0

\* json.loads(s) returns: one value, whitespace around it, nothing else
JsonLoadsOk(s) ==
    LET v == ParseValue(s, SkipWs(s, 1))
    IN  v # 0 /\ SkipWs(s, v) = Len(s) + 1

\* the elements of the array that starts at i - 1, each as its own text
RECURSIVE CollectElements(_, _)
CollectElements(s, i) ==
    LET v == ParseValue(s, i)
        e == SkipWs(s, v)
    IN  IF CharAt(s, e) = ","
        THEN <<SubSeq(s, i, v - 1)>> \o CollectElements(s, SkipWs(s, e + 1))
        ELSE <<SubSeq(s, i, v - 1)>>

\* json.loads(s) of a text that holds an array: the list of its elements
JsonLoadsList(s) ==
    LET i == SkipWs(s, SkipWs(s, 1) + 1)
    IN  IF CharAt(s, i) = "]" THEN <<>> ELSE CollectElements(s, i)

\* the members of the object whose first key opens at i, in the order of
\* the text: the key without its quotes, the value as its own text
RECURSIVE CollectMembers(_, _)
CollectMembers(s, i) ==
    LET k == ScanString(s, i + 1)
        c == SkipWs(s, k)
        b == SkipWs(s, c + 1)
        v == ParseValue(s, b)
        e == SkipWs(s, v)
        m == [key |-> SubSeq(s, i + 1, k - 2), value |-> SubSeq(s, b, v - 1)]
    IN  IF CharAt(s, e) = ","
        THEN <<m>> \o CollectMembers(s, SkipWs(s, e + 1))
        ELSE <<m>>

\* json.loads(s) of a text that holds an object: its members
JsonLoadsDict(s) ==
    LET i == SkipWs(s, SkipWs(s, 1) + 1)
    IN  IF CharAt(s, i) = "}" THEN <<>> ELSE CollectMembers(s, i)

\* d.get(key, default) of the dict built from the members: a later member
\* with the same key replaces an earlier one
RECURSIVE DictGet(_, _, _)
DictGet(members, key, default) ==
    IF members = <<>> THEN default
    ELSE IF members[Len(members)].key = key THEN members[Len(members)].value
    ELSE DictGet(SubSeq(members, 1, Len(members) - 1), key, default)

\* key in d
DictHas(members, key) == \E j \in 1..Len(members) : members[j].key = key

\* a str value as the text that stands for it in JSON
JsonText(str) == <<"\"">> \o str \o <<"\"">>

(***************************************************************************)
(* The replies of the generative model that the texts below are built      *)
(* from: whitespace, a fence or quote marker, a body, a marker, whitespace *)
(***************************************************************************)
ObjX ==
    <<"{", "\"", "s", "u", "b", "j", "e", "c", "t", "\"", ":", "\"", "X",
      "\"", ",", "\"", "u", "n", "i", "t", "s", "\"", ":", "1", ",", "\"",
      "f", "o", "c", "u", "s", "_", "a", "r", "e", "a", "\"", ":", "\"",
      "Y", "\"", ",", "\"", "d", "i", "f", "f", "i", "c", "u", "l", "t",
      "y", "\"", ":", "\"", "Z", "\"", "}">>

ObjY ==
    <<"{", "\"", "s", "u", "b", "j", "e", "c", "t", "\"", ":", "\"", "Q",
      "\"", ",", "\"", "u", "n", "i", "t", "s", "\"", ":", "2", "0", "}">>

NestedLists == <<"[", "[", "1", "]", ",", "[", "2", "]", "]">>

Truncated ==
    <<"{", "\"", "s", "u", "b", "j", "e", "c", "t", "\"", ":", "\"", "X",
      "\"", ",">>

DomainFull ==
    <<"{", "\"", "d", "o", "m", "a", "i", "n", "\"", ":", "\"", "M", "\"",
      ",", "\"", "s", "u", "b", "d", "o", "m", "a", "i", "n", "\"", ":",
      "\"", "A", "\"", ",", "\"", "e", "x", "p", "l", "a", "n", "a", "t",
      "i", "o", "n", "\"", ":", "\"", "E", "\"", "}">>

DomainOnly ==
    <<"{", "\"", "d", "o", "m", "a", "i", "n", "\"", ":", "\"", "M", "\"",
      "}">>

SubdomainOnly ==
    <<"{", "\"", "s", "u", "b", "d", "o", "m", "a", "i", "n", "\"", " ", ":",
      " ", "\"", "A", "\"", "}">>

\* the same key twice, and a value that is no string
DomainTwice ==
    <<"{", "\"", "d", "o", "m", "a", "i", "n", "\"", ":", "\"", "M", "\"",
      ",", "\"", "d", "o", "m", "a", "i", "n", "\"", ":", "7", "}">>

EmptyObject == <<"{", " ", "}">>

BareString == <<"\"", "M", "\"">>

FenceInString ==
    <<"{", "\"", "a", "\"", ":", "\"", Backtick, Backtick, Backtick, "\"",
      "}">>

ListOfOne == <<"[", "1", "]">>

\* two blocks with a fence closer at the end of the first line
FenceInside == <<"[", "1", "]", Backtick, Backtick, Backtick, "\n", "[", "1", "]">>

Leads == {<<>>, <<" ">>, <<"\n">>}
Openers == {<<>>, FenceOpen, FenceOpen \o <<"\n">>, TripleQuote, FenceClose \o <<"\n">>}
Closers == {<<>>, FenceClose, <<"\n">> \o FenceClose, TripleQuote}
Trails == {<<>>, <<"\n">>}

\* every reply built around one of the bodies
Replies(bodies) ==
    {l \o o \o b \o c \o t :
        l \in Leads, o \in Openers, b \in bodies, c \in Closers, t \in Trails}

(***************************************************************************)
(* The two normalizations, side by side on one reply                       *)
(***************************************************************************)
NormBodies ==
    {DomainOnly, ObjY, ListOfOne, FenceInString, FenceInside, NestedLists,
     Truncated, <<"[", "]">>, <<>>}

NormInit ==
    /\ normPc = "call"
    /\ rawText = <<>>
    /\ fourText = <<>>
    /\ regexText = <<>>
    /\ fourAgain = <<>>
    /\ regexAgain = <<>>
    /\ LevelIdle /\ RecIdle /\ ClsIdle /\ GenIdle

\* response = model.generate_content(prompt); response.text
NormModelReply ==
    /\ normPc = "call"
    /\ \E t \in Replies(NormBodies) : rawText' = t
    /\ normPc' = "replied"
    /\ UNCHANGED <<fourText, regexText, fourAgain, regexAgain>>
    /\ UNCHANGED NormOthers

\* the text each site hands to json.loads
NormNormalize ==
    /\ normPc = "replied"
    /\ fourText' = NormalizeFourStep(rawText)
    /\ regexText' = NormalizeRegex(rawText)
    /\ normPc' = "normalized"
    /\ UNCHANGED <<rawText, fourAgain, regexAgain>>
    /\ UNCHANGED NormOthers

\* each site's normalization applied to its own output
NormRenormalize ==
    /\ normPc = "normalized"
    /\ fourAgain' = NormalizeFourStep(fourText)
    /\ regexAgain' = NormalizeRegex(regexText)
    /\ normPc' = "renormalized"
    /\ UNCHANGED <<rawText, fourText, regexText>>
    /\ UNCHANGED NormOthers

NormNext == NormModelReply \/ NormNormalize \/ NormRenormalize

(***************************************************************************)
(* /course-recommendation (courserecommendataion.py)                       *)
(***************************************************************************)
RECURSIVE LStripChars(_, _)
LStripChars(s, chars) ==
    IF s # <<>> /\ Head(s) \in chars THEN LStripChars(Tail(s), chars) ELSE s

RECURSIVE RStripChars(_, _)
RStripChars(s, chars) ==
    IF s # <<>> /\ s[Len(s)] \in chars
    THEN RStripChars(SubSeq(s, 1, Len(s) - 1), chars)
    ELSE s

\* s.strip('[]'): every leading and trailing bracket character goes
StripBrackets(s) == RStripChars(LStripChars(s, {"[", "]"}), {"[", "]"})

\* f"[{response_text}]"
WrapOnly(t) == <<"[">> \o t \o <<"]">>

\* f"[{response_text.strip().strip('[]')}]"
WrapInBrackets(t) == <<"[">> \o StripBrackets(Strip(t)) \o <<"]">>

\* the objects a reply may list, in every order, up to MaxObjs of them
ObjSeqs == UNION {[1..n -> {ObjX, ObjY}] : n \in 1..MaxObjs}

RECURSIVE Join(_, _)
Join(objs, sep) ==
    IF Len(objs) = 1 THEN objs[1] ELSE objs[1] \o sep \o Join(Tail(objs), sep)

Separators == {<<",">>, <<",", "\n">>}
\* no brackets, one pair, one pair with a line break inside
Enclosings == {<< <<>>, <<>> >>, << <<"[">>, <<"]">> >>, << <<"[", "\n">>, <<"\n", "]">> >>}
Paddings == {<<>>, <<"\n">>}

\* the replies that list flat objects, with the objects each lists
FlatForms ==
    {[objs |-> os, text |-> p \o e[1] \o Join(os, sep) \o e[2] \o p] :
        os \in ObjSeqs, sep \in Separators, e \in Enclosings, p \in Paddings}

FlatBodies == {e[1] \o Join(os, sep) \o e[2] :
                 os \in ObjSeqs, sep \in Separators, e \in Enclosings}

RecBodies == FlatBodies \cup {NestedLists, Truncated, <<>>}

RecInit ==
    /\ recPc = "call"
    /\ rawText = <<>>
    /\ fourText = <<>>
    /\ recResponse = RecNoResponse
    /\ LevelIdle /\ NormIdle /\ ClsIdle /\ GenIdle

\* gemini_response = model.generate_content(prompt); an exception of the
\* call reaches the handler's except Exception
RecModelCall ==
    /\ recPc = "call"
    /\ \/ /\ recPc' = "done"
          /\ recResponse' = [status |-> 500, error |-> "unexpected", recommendations |-> <<>>]
          /\ UNCHANGED <<rawText, fourText>>
       \/ /\ \E t \in Replies(RecBodies) : rawText' = t
          /\ recPc' = "replied"
          /\ UNCHANGED <<fourText, recResponse>>
    /\ UNCHANGED RecOthers

\* json.loads of the wrapped text and the handler's answer
RecAnswer(wrapped) ==
    IF JsonLoadsOk(wrapped)
    THEN [status |-> 200, error |-> "none", recommendations |-> JsonLoadsList(wrapped)]
    ELSE [status |-> 500, error |-> "parse", recommendations |-> <<>>]

\* the rest of recommend_course: normalize, wrap, parse, answer
RecParse ==
    /\ recPc = "replied"
    /\ fourText' = NormalizeFourStep(rawText)
    /\ recResponse' = RecAnswer(WrapInBrackets(NormalizeFourStep(rawText)))
    /\ recPc' = "done"
    /\ UNCHANGED rawText
    /\ UNCHANGED RecOthers

RecNext == RecModelCall \/ RecParse

(***************************************************************************)
(* /detect-domain-from-file (contentlabelall.py)                           *)
(***************************************************************************)
FileNames ==
    {<<"notes", "txt">>, <<"paper", "pdf">>, <<"paper", "PDF">>,
     <<"essay", "docx">>, <<"deck", "pptx">>, <<"docx">>,
     <<"backup", "pdf", "zip">>, <<"README">>}

\* str.lower() on the pieces above
Lower(piece) == IF piece = "PDF" THEN "pdf" ELSE piece

\* filename.split(".")[-1].lower()
Extension(name) == Lower(name[Len(name)])

\* the dispatch with one more branch, for txt
IsSupportedOrTxt(ext) == ext \in {"docx", "pdf", "pptx", "txt"}

\* the if / elif / elif of the dispatch; the else raises
IsSupported(ext) == ext \in {"docx", "pdf", "pptx"}

\* raise HTTPException(status_code=st, detail=...); other exceptions carry
\* status 0
Raised(st, err) == [status |-> st, error |-> err]

\* except Exception as e: raise HTTPException(status_code=500, detail=str(e))
\* HTTPException is an Exception, so this clause also takes the handler's own
ClsOuterExcept(e) == [status |-> 500, error |-> e.error, body |-> NoBody]

ClsReplies ==
    Replies({DomainFull, DomainOnly, SubdomainOnly, DomainTwice, EmptyObject,
             ListOfOne, BareString, Truncated})

\* the defaults of the three result.get calls
Unknown == JsonText(<<"U", "n", "k", "n", "o", "w", "n">>)
NoExplanation ==
    JsonText(<<"N", "o", " ", "e", "x", "p", "l", "a", "n", "a", "t", "i", "o",
               "n", " ", "p", "r", "o", "v", "i", "d", "e", "d", ".">>)

KeyDomain == <<"d", "o", "m", "a", "i", "n">>
KeySubdomain == <<"s", "u", "b", "d", "o", "m", "a", "i", "n">>
KeyExplanation == <<"e", "x", "p", "l", "a", "n", "a", "t", "i", "o", "n">>

ClsInit ==
    /\ clsPc = "download"
    /\ fileName \in FileNames
    /\ dlStatus = -1
    /\ modelCalls = 0
    /\ clsResponse = ClsNoResponse
    /\ rawText = <<>>
    /\ fourText = <<>>
    /\ LevelIdle /\ NormIdle /\ RecIdle /\ GenIdle

\* requests.get(request.file_url) and the status test; an exception of
\* requests.get leaves no status (0 here)
ClsDownload ==
    /\ clsPc = "download"
    /\ \/ \E st \in {200, 404} :
             /\ dlStatus' = st
             /\ IF st = 200
                THEN clsPc' = "extract" /\ UNCHANGED clsResponse
                ELSE /\ clsPc' = "done"
                     /\ clsResponse' = ClsOuterExcept(Raised(400, "download_failed"))
       \/ /\ dlStatus' = 0
          /\ clsPc' = "done"
          /\ clsResponse' = ClsOuterExcept(Raised(0, "download_exception"))
    /\ UNCHANGED <<fileName, modelCalls, rawText, fourText>>
    /\ UNCHANGED ClsOthers

\* the dispatch on the extension, the extractor, the blank test
ClsExtract ==
    /\ clsPc = "extract"
    /\ IF ~IsSupported(Extension(fileName))
       THEN /\ clsPc' = "done"
            /\ clsResponse' = ClsOuterExcept(Raised(400, "unsupported_type"))
       ELSE \E content \in {"text", "blank", "raise"} :
              IF content = "text"
              THEN clsPc' = "model" /\ UNCHANGED clsResponse
              ELSE /\ clsPc' = "done"
                   /\ clsResponse' = ClsOuterExcept(
                         IF content = "blank" THEN Raised(400, "empty_content")
                         ELSE Raised(0, "extraction_exception"))
    /\ UNCHANGED <<fileName, dlStatus, modelCalls, rawText, fourText>>
    /\ UNCHANGED ClsOthers

\* gemini_response = model.generate_content(prompt)
ClsModelCall ==
    /\ clsPc = "model"
    /\ modelCalls' = modelCalls + 1
    /\ \/ /\ clsPc' = "done"
          /\ clsResponse' = ClsOuterExcept(Raised(0, "model"))
          /\ UNCHANGED rawText
       \/ /\ \E t \in ClsReplies : rawText' = t
          /\ clsPc' = "parse"
          /\ UNCHANGED clsResponse
    /\ UNCHANGED <<fileName, dlStatus, fourText>>
    /\ UNCHANGED ClsOthers

JsonIsObject(s) == JsonLoadsOk(s) /\ CharAt(s, SkipWs(s, 1)) = "{"

\* the answer with result[key] in place of result.get(key, default): a
\* missing key raises KeyError
ClsAnswerIndexed(name, text) ==
    IF ~JsonLoadsOk(text) THEN ClsOuterExcept(Raised(500, "response_format"))
    ELSE IF ~JsonIsObject(text) THEN ClsOuterExcept(Raised(0, "attribute_error"))
    ELSE LET result == JsonLoadsDict(text)
         IN  IF \A k \in {KeyDomain, KeySubdomain, KeyExplanation} :
                    DictHas(result, k)
             THEN [status |-> 200, error |-> "none",
                   body |-> [filename |-> name,
                             domain |-> DictGet(result, KeyDomain, Unknown),
                             subdomain |-> DictGet(result, KeySubdomain, Unknown),
                             explanation |->
                                 DictGet(result, KeyExplanation, NoExplanation)]]
             ELSE ClsOuterExcept(Raised(0, "key_error"))

\* json.loads of the normalized text and the answer built with result.get;
\* a parsed value that is no dict has no get
ClsAnswer(name, text) ==
    IF ~JsonLoadsOk(text) THEN ClsOuterExcept(Raised(500, "response_format"))
    ELSE IF ~JsonIsObject(text) THEN ClsOuterExcept(Raised(0, "attribute_error"))
    ELSE LET result == JsonLoadsDict(text)
         IN  [status |-> 200, error |-> "none",
              body |-> [filename |-> name,
                        domain |-> DictGet(result, KeyDomain, Unknown),
                        subdomain |-> DictGet(result, KeySubdomain, Unknown),
                        explanation |->
                            DictGet(result, KeyExplanation, NoExplanation)]]

\* the rest of detect_domain_from_file: normalize, parse, answer
ClsParse ==
    /\ clsPc = "parse"
    /\ fourText' = NormalizeFourStep(rawText)
    /\ clsResponse' = ClsAnswer(fileName, NormalizeFourStep(rawText))
    /\ clsPc' = "done"
    /\ UNCHANGED <<fileName, dlStatus, modelCalls, rawText>>
    /\ UNCHANGED ClsOthers

ClsNext == ClsDownload \/ ClsExtract \/ ClsModelCall \/ ClsParse

(***************************************************************************)
(* /generate-course (fullcoursegen.py) and /generate-question              *)
(* (fullmcqgen.py): skeleton, per-unit expansion, assembly.                *)
(* The generative model and the video search are outside the program:      *)
(* each call to them is a choice among the outcomes the handler tells      *)
(* apart.                                                                  *)
(***************************************************************************)
Settled == {"ok", "failed_structure", "failed_content", "failed_mcqs", "failed_video"}

\* the skeletons a parse can give: up to MaxUnits stubs, each with or
\* without the unitTitle key
StubSeqs == UNION {[1..n -> {"titled", "untitled"}] : n \in 0..MaxUnits}

SetAt(seq, i, v) == [seq EXCEPT ![i] = v]

\* return course_structure
Ok(units) == [status |-> 200, error |-> "none", units |-> units]

\* except Exception as e: raise HTTPException(status_code=500, detail=str(e))
ServerError(e) == [status |-> 500, error |-> e, units |-> <<>>]

GenInit ==
    /\ pipeline \in {"content", "mcq"}
    /\ genPc = "skeleton"
    /\ stubs = <<>>
    /\ unit = <<>>
    /\ video = <<>>
    /\ attempts = <<>>
    /\ running = 0
    /\ detailed_units = <<>>
    /\ genResponse = NoResponse
    /\ LevelIdle /\ TextIdle /\ NormIdle /\ RecIdle /\ ClsIdle

\* Stage 1 of both handlers: the structure call, the normalization and
\* json.loads; any failure of the three reaches the outer except
GenSkeleton ==
    /\ genPc = "skeleton"
    /\ \/ /\ genPc' = "done"
          /\ genResponse' = ServerError("skeleton")
          /\ UNCHANGED <<pipeline, stubs, unit, video, attempts, running, detailed_units>>
       \/ \E st \in StubSeqs :
          /\ stubs' = st
          /\ unit' = [i \in 1..Len(st) |-> "new"]
          /\ video' = [i \in 1..Len(st) |-> "unset"]
          /\ attempts' = [i \in 1..Len(st) |-> 0]
          /\ genPc' = IF pipeline = "content" THEN "loop" ELSE "fanout"
          /\ UNCHANGED <<pipeline, running, detailed_units, genResponse>>
    /\ UNCHANGED GenOthers

(***************************************************************************)
(* fullcoursegen.py: the Content pipeline                                  *)
(***************************************************************************)
\* the outcomes of the video search request that fetch_youtube_video tells apart
LookupOutcomes == {"found", "no_items", "timeout", "http_error", "malformed"}

\* fetch_youtube_video with the catch-all except clause missing
fetch_youtube_video_uncaught(outcome) ==
    CASE outcome = "found" -> "https://www.youtube.com/watch?v=ID"
      [] outcome = "no_items" -> "No relevant video found."
      [] outcome = "timeout" -> "YouTube fetch timeout."
      [] OTHER -> "RAISE"

\* what fetch_youtube_video returns; "RAISE" would stand for an exception
\* leaving it
fetch_youtube_video(outcome) ==
    CASE outcome = "found" -> "https://www.youtube.com/watch?v=ID"
      [] outcome = "no_items" -> "No relevant video found."
      [] outcome = "timeout" -> "YouTube fetch timeout."
      [] OTHER -> "Error fetching video."

\* for unit in course_structure["units"] with the await dropped: any stub
\* not yet expanded may be next
ContentCanStartAny(i) == unit[i] = "new"

\* for unit in course_structure["units"]: stub i is next once the loop body
\* of every stub before it has ended
ContentCanStart(i) ==
    /\ unit[i] = "new"
    /\ \A j \in 1..(i - 1) : unit[j] \in Settled

\* detailed_units.append(unit_details)
AppendUnit(units, u) == Append(units, u)

\* the loop body with an except clause that does not read the title: a
\* stub without one is skipped like a unit whose expansion raised
ContentLoopUnitSkipsUntitled(i) ==
    /\ pipeline = "content"
    /\ genPc = "loop"
    /\ running = 0
    /\ ContentCanStart(i)
    /\ IF stubs[i] = "untitled"
       THEN /\ unit' = SetAt(unit, i, "failed_structure")
            /\ UNCHANGED <<genPc, genResponse, attempts, running>>
       ELSE /\ unit' = SetAt(unit, i, "started")
            /\ attempts' = SetAt(attempts, i, attempts[i] + 1)
            /\ running' = i
            /\ UNCHANGED <<genPc, genResponse>>
    /\ UNCHANGED <<pipeline, stubs, video, detailed_units>>
    /\ UNCHANGED GenOthers

\* the loop body up to the call: unit["unitTitle"] is read as the first
\* argument; without the key the KeyError is caught by the loop's except,
\* whose print reads unit['unitTitle'] again, and that KeyError leaves the
\* loop for the outer except
ContentLoopUnit(i) ==
    /\ pipeline = "content"
    /\ genPc = "loop"
    /\ running = 0
    /\ ContentCanStart(i)
    /\ IF stubs[i] = "untitled"
       THEN /\ genPc' = "done"
            /\ genResponse' = ServerError("missing_unit_title")
            /\ UNCHANGED <<unit, attempts, running>>
       ELSE /\ unit' = SetAt(unit, i, "started")
            /\ attempts' = SetAt(attempts, i, attempts[i] + 1)
            /\ running' = i
            /\ UNCHANGED <<genPc, genResponse>>
    /\ UNCHANGED <<pipeline, stubs, video, detailed_units>>
    /\ UNCHANGED GenOthers

\* get_unit_details: the unit structure call and its parse
ContentStructureCall(i) ==
    /\ pipeline = "content"
    /\ running = i
    /\ unit[i] = "started"
    /\ \/ unit' = SetAt(unit, i, "structured") /\ UNCHANGED running
       \/ unit' = SetAt(unit, i, "failed_structure") /\ running' = 0
    /\ UNCHANGED <<pipeline, genPc, stubs, video, attempts, detailed_units, genResponse>>
    /\ UNCHANGED GenOthers

\* generate_unit_content: the content call and its parse
ContentContentCall(i) ==
    /\ pipeline = "content"
    /\ running = i
    /\ unit[i] = "structured"
    /\ \/ unit' = SetAt(unit, i, "contented") /\ UNCHANGED running
       \/ unit' = SetAt(unit, i, "failed_content") /\ running' = 0
    /\ UNCHANGED <<pipeline, genPc, stubs, video, attempts, detailed_units, genResponse>>
    /\ UNCHANGED GenOthers

\* the video lookup, return unit_data, and the loop's append
ContentVideoLookup(i) ==
    /\ pipeline = "content"
    /\ running = i
    /\ unit[i] = "contented"
    /\ \E o \in LookupOutcomes :
          LET v == fetch_youtube_video(o)
          IN  IF v = "RAISE"
              THEN /\ unit' = SetAt(unit, i, "failed_video")
                   /\ UNCHANGED <<video, detailed_units>>
              ELSE /\ unit' = SetAt(unit, i, "ok")
                   /\ video' = SetAt(video, i, v)
                   /\ detailed_units' = AppendUnit(detailed_units, [stub |-> i, video |-> v])
    /\ running' = 0
    /\ UNCHANGED <<pipeline, genPc, stubs, attempts, genResponse>>
    /\ UNCHANGED GenOthers

\* the check after the loop with the test dropped
ContentResponseUnchecked(units) == Ok(units)

\* if not detailed_units: raise ...; course_structure["units"] = detailed_units
ContentResponse(units) ==
    IF units = <<>> THEN ServerError("no_units") ELSE Ok(units)

\* the loop has run out of stubs
ContentAssemble ==
    /\ pipeline = "content"
    /\ genPc = "loop"
    /\ \A i \in 1..Len(stubs) : unit[i] \in Settled
    /\ genPc' = "done"
    /\ genResponse' = ContentResponse(detailed_units)
    /\ UNCHANGED <<pipeline, stubs, unit, video, attempts, running, detailed_units>>
    /\ UNCHANGED GenOthers

(***************************************************************************)
(* fullmcqgen.py: the MCQ pipeline                                         *)
(***************************************************************************)
\* asyncio.gather(..., return_exceptions=False)
ReturnExceptionsOff == FALSE

\* asyncio.gather(*unit_tasks, return_exceptions=True)
ReturnExceptions == TRUE

\* unit_tasks = [get_unit_details(unit["unitTitle"], ...) for unit in ...]:
\* the titles are read here, so a stub without one ends the request before
\* any coroutine runs
McqFanOut ==
    /\ pipeline = "mcq"
    /\ genPc = "fanout"
    /\ IF \E i \in 1..Len(stubs) : stubs[i] = "untitled"
       THEN /\ genPc' = "done"
            /\ genResponse' = ServerError("missing_unit_title")
            /\ UNCHANGED unit
       ELSE /\ genPc' = "gather"
            /\ unit' = [i \in 1..Len(stubs) |-> "created"]
            /\ UNCHANGED genResponse
    /\ UNCHANGED <<pipeline, stubs, video, attempts, running, detailed_units>>
    /\ UNCHANGED GenOthers

\* the event loop runs a task of the gather; which of the created tasks it
\* takes next is left open.  model.generate_content is a blocking call and
\* the task awaits nothing but its own coroutine, so the task keeps the
\* thread until it returns or raises.
McqTaskStart(i) ==
    /\ pipeline = "mcq"
    /\ genPc = "gather"
    /\ running = 0
    /\ unit[i] = "created"
    /\ unit' = SetAt(unit, i, "started")
    /\ attempts' = SetAt(attempts, i, attempts[i] + 1)
    /\ running' = i
    /\ UNCHANGED <<pipeline, genPc, stubs, video, detailed_units, genResponse>>
    /\ UNCHANGED GenOthers

\* get_unit_details: the unit structure call and its parse
McqStructureCall(i) ==
    /\ pipeline = "mcq"
    /\ running = i
    /\ unit[i] = "started"
    /\ \/ unit' = SetAt(unit, i, "structured") /\ UNCHANGED running
       \/ unit' = SetAt(unit, i, "failed_structure") /\ running' = 0
    /\ UNCHANGED <<pipeline, genPc, stubs, video, attempts, detailed_units, genResponse>>
    /\ UNCHANGED GenOthers

\* generate_mcqs, then unit_data["assessment"] = unit_mcqs; return unit_data
McqMcqsCall(i) ==
    /\ pipeline = "mcq"
    /\ running = i
    /\ unit[i] = "structured"
    /\ \/ unit' = SetAt(unit, i, "ok")
       \/ unit' = SetAt(unit, i, "failed_mcqs")
    /\ running' = 0
    /\ UNCHANGED <<pipeline, genPc, stubs, video, attempts, detailed_units, genResponse>>
    /\ UNCHANGED GenOthers

\* what the gather holds for task i: its return value or its exception
TaskResult(i) == [exc |-> unit[i] # "ok", stub |-> i, video |-> video[i]]

\* the gather's result list follows the order of its arguments
GatherResults == [i \in 1..Len(stubs) |-> TaskResult(i)]

\* [unit for unit in detailed_units if not isinstance(unit, Exception)]
FilterUnits(results) ==
    LET IsUnit(r) == ~r.exc
        kept == SelectSeq(results, IsUnit)
    IN  [k \in 1..Len(kept) |-> [stub |-> kept[k].stub, video |-> kept[k].video]]

\* the gather, the filter and the check on the filtered list
McqResponse(results) ==
    IF ~ReturnExceptions /\ \E k \in 1..Len(results) : results[k].exc
    THEN ServerError("task_error")
    ELSE IF FilterUnits(results) = <<>> THEN ServerError("no_units")
    ELSE Ok(FilterUnits(results))

\* await asyncio.gather(...) returns once every task has returned or raised
McqFanIn ==
    /\ pipeline = "mcq"
    /\ genPc = "gather"
    /\ running = 0
    /\ \A i \in 1..Len(stubs) : unit[i] \in Settled
    /\ genPc' = "done"
    /\ genResponse' = McqResponse(GatherResults)
    /\ UNCHANGED <<pipeline, stubs, unit, video, attempts, running, detailed_units>>
    /\ UNCHANGED GenOthers

GenNext ==
    \/ GenSkeleton
    \/ \E i \in 1..Len(stubs) : ContentLoopUnit(i)
    \/ \E i \in 1..Len(stubs) : ContentStructureCall(i)
    \/ \E i \in 1..Len(stubs) : ContentContentCall(i)
    \/ \E i \in 1..Len(stubs) : ContentVideoLookup(i)
    \/ ContentAssemble
    \/ McqFanOut
    \/ \E i \in 1..Len(stubs) : McqTaskStart(i)
    \/ \E i \in 1..Len(stubs) : McqStructureCall(i)
    \/ \E i \in 1..Len(stubs) : McqMcqsCall(i)
    \/ McqFanIn

(***************************************************************************)
(* What the responses are compared with                                    *)
(***************************************************************************)
\* the stubs whose expansion returned, in stub order, each with its video
RECURSIVE OkFrom(_)
OkFrom(i) ==
    IF i > Len(unit) THEN <<>>
    ELSE (IF unit[i] = "ok" THEN <<[stub |-> i, video |-> video[i]]>> ELSE <<>>)
         \o OkFrom(i + 1)

ExpectedUnits == OkFrom(1)

AllTitled == \A i \in 1..Len(stubs) : stubs[i] = "titled"

InSeq(x, seq) == \E k \in 1..Len(seq) : seq[k] = x

VideoValues ==
    {"https://www.youtube.com/watch?v=ID", "No relevant video found.",
     "YouTube fetch timeout.", "Error fetching video."}

\* a is t without its leading and trailing whitespace
IsTrimOf(a, t) ==
    \E i \in 1..(Len(t) + 1) : \E j \in 0..Len(t) :
        /\ a = SubSeq(t, i, j)
        /\ \A k \in 1..(i - 1) : IsWs(t[k])
        /\ \A k \in (j + 1)..Len(t) : IsWs(t[k])
        /\ a # <<>> => ~IsWs(a[1]) /\ ~IsWs(a[Len(a)])

(***************************************************************************)
(* The specifications: one request of one endpoint each                    *)
(***************************************************************************)
\* /predict-level
SpecLevel == LevelInit /\ [][LevelNext]_vars

\* one model reply through both normalizations
SpecNorm == NormInit /\ [][NormNext]_vars

\* /course-recommendation
SpecRecommend == RecInit /\ [][RecNext]_vars

\* /detect-domain-from-file
SpecClassifier == ClsInit /\ [][ClsNext]_vars

\* /generate-course and /generate-question
SpecGen == GenInit /\ [][GenNext]_vars

(***************************************************************************)
(* The claims                                                              *)
(***************************************************************************)

\* C1 (SpecLevel): for every score in 0..9 and time_taken > 0 the level
\* answered is Advanced exactly when score >= 7 and time_taken <= 80,
\* Intermediate exactly when 4 <= score < 7, and Beginner otherwise; so a
\* score >= 7 with time_taken > 80 is Beginner, never Intermediate.
C1_LevelTable ==
    level # "none" =>
        /\ level \in {"Advanced", "Intermediate", "Beginner"}
        /\ level = "Advanced" <=> (score >= 7 /\ time_taken <= 80)
        /\ level = "Intermediate" <=> (4 <= score /\ score < 7)
        /\ (score >= 7 /\ time_taken > 80) => level = "Beginner"
        /\ (score = 7 /\ time_taken = 80) => level = "Advanced"
        /\ (score = 7 /\ time_taken = 81) => level = "Beginner"
        /\ (score = 3 /\ time_taken = 1) => level = "Beginner"
        /\ (score = 9 /\ time_taken = 5) => level = "Advanced"
        /\ score = 6 => level = "Intermediate"

\* a high score just past the time threshold has been answered
C1_Witness == score = 7 /\ time_taken = 81 /\ level = "Beginner"

\* C2 (SpecGen): in the MCQ pipeline, when some but not all (or none) of the
\* unit tasks fail, the request answers 200 and its units are exactly the
\* expansions of the stubs whose task returned, in stub order, whatever the
\* order the tasks ran in; every task has returned or raised by then, none
\* is left unfinished because a sibling failed.
C2_McqPartialFailure ==
    (pipeline = "mcq" /\ genPc = "done" /\ \E i \in 1..Len(unit) : unit[i] = "ok") =>
        /\ genResponse.status = 200
        /\ genResponse.error = "none"
        /\ genResponse.units = ExpectedUnits
        /\ \A i \in 1..Len(unit) : unit[i] \in Settled

\* three of five tasks failed, at either call, and stubs 2 and 4 came back
C2_Witness ==
    /\ pipeline = "mcq"
    /\ genPc = "done"
    /\ unit = <<"failed_structure", "ok", "failed_mcqs", "ok", "failed_structure">>
    /\ genResponse.status = 200
    /\ genResponse.units = <<[stub |-> 2, video |-> "unset"], [stub |-> 4, video |-> "unset"]>>

\* C3 (SpecGen): in both pipelines a request whose skeleton parsed and whose
\* unit expansions all failed, or that had no stubs, ends in the 500 "no
\* units" error; every 200 response carries at least one unit.
C3_NoUnitsIsAnError ==
    genPc = "done" =>
        /\ genResponse.status = 200 => genResponse.units # <<>>
        /\ (genResponse.error # "skeleton" /\ AllTitled /\ ExpectedUnits = <<>>) =>
              (genResponse.status = 500 /\ genResponse.error = "no_units")

\* the Content pipeline lost both of its two units, one at each call
C3_Witness ==
    /\ pipeline = "content"
    /\ genPc = "done"
    /\ unit = <<"failed_structure", "failed_content">>
    /\ genResponse.status = 500
    /\ genResponse.error = "no_units"

\* C4 (SpecGen): in the Content pipeline the stubs are expanded one at a
\* time in stub order (stub i+1 is not started before stub i has returned
\* or raised), no stub is expanded twice, and the units collected, and
\* returned by a 200 response, are the stubs whose expansion returned, in
\* stub order; a failed expansion does not fail the request while another
\* stub's expansion returned.
C4_ContentSequentialSkip ==
    pipeline = "content" =>
        /\ \A i \in 1..(Len(unit) - 1) : unit[i + 1] # "new" => unit[i] \in Settled
        /\ Cardinality({i \in 1..Len(unit) : unit[i] \notin Settled \cup {"new"}}) <= 1
        /\ \A i \in 1..Len(unit) : attempts[i] <= 1
        /\ detailed_units = ExpectedUnits
        /\ (genPc = "done" /\ genResponse.status = 200) => genResponse.units = ExpectedUnits
        /\ (genPc = "done" /\ AllTitled /\ ExpectedUnits # <<>>) => genResponse.status = 200

\* the first and third expansions raised, the second and fourth are returned
C4_Witness ==
    /\ pipeline = "content"
    /\ genPc = "done"
    /\ Len(unit) = 4
    /\ unit[1] = "failed_content" /\ unit[2] = "ok"
    /\ unit[3] = "failed_structure" /\ unit[4] = "ok"
    /\ attempts = <<1, 1, 1, 1>>
    /\ Len(genResponse.units) = 2
    /\ genResponse.units[1].stub = 2 /\ genResponse.units[2].stub = 4

\* C5 (SpecClassifier), as claimed: a failed download, an unsupported
\* extension and blank text are answered with status 400, and status 500 is
\* answered only when the model call or the JSON parse failed.
C5_ClientErrorsAre400 ==
    clsPc = "done" =>
        /\ clsResponse.error \in {"download_failed", "unsupported_type", "empty_content"}
              => clsResponse.status = 400
        /\ clsResponse.status = 500 => clsResponse.error \in {"model", "response_format"}

\* C6 (SpecClassifier): a request whose extension is none of docx, pdf, pptx
\* never reaches the model call and, once downloaded, ends in the
\* unsupported-type error; a model call happens only after the download and
\* the dispatch on the extension went through.
C6_NoModelCallForUnsupported ==
    LET supported == Extension(fileName) \in {"docx", "pdf", "pptx"}
    IN  /\ ~supported => modelCalls = 0
        /\ (~supported /\ dlStatus = 200 /\ clsPc = "done") =>
              clsResponse.error = "unsupported_type"
        /\ modelCalls > 0 => (supported /\ dlStatus = 200 /\ clsPc \in {"parse", "done"})
        /\ clsPc \in {"model", "parse"} => supported

\* notes.txt was downloaded and refused without a model call
C6_Witness ==
    /\ fileName = <<"notes", "txt">>
    /\ dlStatus = 200
    /\ clsPc = "done"
    /\ clsResponse.error = "unsupported_type"
    /\ modelCalls = 0

\* C7 (SpecRecommend): when the normalized text is one flat object, or a
\* comma-separated list of up to MaxObjs flat objects, inside one pair of
\* array brackets or none, the request answers 200 with exactly those
\* objects, in order, as recommendations.
C7_WrapFlatObjects ==
    recPc = "done" =>
        \A f \in FlatForms :
            fourText = f.text =>
                recResponse = [status |-> 200, error |-> "none", recommendations |-> f.objs]

\* a fenced reply listed two objects inside brackets and both came back
C7_Witness ==
    /\ recPc = "done"
    /\ StartsWith(rawText, FenceOpen)
    /\ fourText = <<"\n", "[">> \o ObjX \o <<",">> \o ObjY \o <<"]", "\n">>
    /\ recResponse.status = 200
    /\ recResponse.recommendations = <<ObjX, ObjY>>

\* C8 (SpecNorm), as claimed: a normalized text that is valid JSON comes out
\* of the same normalization unchanged.
C8_RenormalizeIsIdentity ==
    normPc = "renormalized" =>
        /\ JsonLoadsOk(fourText) => fourAgain = fourText
        /\ JsonLoadsOk(regexText) => regexAgain = regexText

\* C8 (SpecNorm), amended: a normalized text that is valid JSON loses
\* nothing but its leading and trailing whitespace to a second
\* normalization: the four-step normalization answers the text trimmed, the
\* generators' normalization answers the text itself.
C8_RenormalizeOnlyTrims ==
    normPc = "renormalized" =>
        /\ JsonLoadsOk(fourText) => IsTrimOf(fourAgain, fourText)
        /\ JsonLoadsOk(regexText) => regexAgain = regexText

\* a fenced reply was normalized to valid JSON with a line break on each
\* side, and the second normalization trimmed it
C8_Witness ==
    /\ normPc = "renormalized"
    /\ StartsWith(rawText, FenceOpen)
    /\ JsonLoadsOk(fourText)
    /\ fourText = <<"\n">> \o DomainOnly \o <<"\n">>
    /\ fourAgain = DomainOnly
    /\ regexAgain = regexText

\* C9 (SpecNorm), as claimed and up to surrounding whitespace: the
\* generators' normalization hands json.loads the same text as the four-step
\* normalization of the Classifier and the Recommender.
C9_SameNormalization ==
    normPc \in {"normalized", "renormalized"} =>
        RStrip(LStrip(fourText)) = RStrip(LStrip(regexText))

\* C10 (SpecGen): in the Content pipeline no outcome of the video lookup
\* fails a unit or the request: a unit whose structure and content calls
\* went through is collected with its video field set to a locator or to one
\* of the three sentinels, every 200 response holds it, and a 500 response
\* comes only from the skeleton, a stub without title, or no unit at all
\* having passed its structure and content calls.
C10_VideoLookupNeverFails ==
    pipeline = "content" =>
        /\ \A i \in 1..Len(unit) :
              /\ unit[i] # "failed_video"
              /\ unit[i] = "ok" =>
                    /\ video[i] \in VideoValues
                    /\ InSeq([stub |-> i, video |-> video[i]], detailed_units)
                    /\ (genPc = "done" /\ genResponse.status = 200) =>
                          InSeq([stub |-> i, video |-> video[i]], genResponse.units)
        /\ (genPc = "done" /\ genResponse.status = 500) =>
              /\ genResponse.error \in {"skeleton", "missing_unit_title", "no_units"}
              /\ genResponse.error = "no_units" =>
                    \A i \in 1..Len(unit) : unit[i] \in {"failed_structure", "failed_content"}

\* two lookups failed, by timeout and by error, and both units are returned
C10_Witness ==
    /\ pipeline = "content"
    /\ genPc = "done"
    /\ genResponse.status = 200
    /\ genResponse.units =
          <<[stub |-> 1, video |-> "YouTube fetch timeout."],
            [stub |-> 2, video |-> "Error fetching video."]>>

\* the value of one returned field against the parsed object: the value of
\* the last member that has the key, the default where no member has it
ParsedOrDefault(got, members, key, default) ==
    IF \E j \in 1..Len(members) : members[j].key = key
    THEN \E j \in 1..Len(members) :
            /\ members[j].key = key
            /\ members[j].value = got
            /\ \A k \in (j + 1)..Len(members) : members[k].key # key
    ELSE got = default

\* the three returned fields against the object parsed from fourText
FieldsFromParsed ==
    LET members == JsonLoadsDict(fourText)
        body == clsResponse.body
    IN  /\ ParsedOrDefault(body.domain, members, KeyDomain, Unknown)
        /\ ParsedOrDefault(body.subdomain, members, KeySubdomain, Unknown)
        /\ ParsedOrDefault(body.explanation, members, KeyExplanation, NoExplanation)

\* C11 as claimed (SpecClassifier): whenever the normalized reply parses as
\* JSON, the request succeeds and returns the three fields, each equal to
\* the parsed value where the key is present and to its default where not.
C11_ParsedNeverFails ==
    (clsPc = "done" /\ JsonLoadsOk(fourText)) =>
        /\ clsResponse.status = 200
        /\ FieldsFromParsed

\* C11 (SpecClassifier): whenever the normalized reply parses as a JSON
\* object, the request succeeds with the file name and the three fields,
\* each equal to the parsed value where the key is present and to its
\* default ("Unknown", "Unknown", "No explanation provided.") where not;
\* a reply that parses as another JSON value (an array, a string, a
\* number) fails the request with status 500.
C11_MissingKeysDefault ==
    clsPc = "done" =>
        /\ JsonIsObject(fourText) =>
              /\ clsResponse.status = 200
              /\ clsResponse.body.filename = fileName
              /\ FieldsFromParsed
        /\ (JsonLoadsOk(fourText) /\ ~JsonIsObject(fourText)) =>
              clsResponse.status = 500

\* an object with the subdomain alone: the two other fields are the defaults
C11_Witness ==
    /\ clsPc = "done"
    /\ fourText = SubdomainOnly
    /\ clsResponse.status = 200
    /\ clsResponse.body.domain = Unknown
    /\ clsResponse.body.subdomain = JsonText(<<"A">>)
    /\ clsResponse.body.explanation = NoExplanation

\* the expansion of stub i has started and has neither returned nor raised
InFlight(i) == unit[i] \in {"started", "structured", "contented"}

\* the expansions in flight
ExpansionsInFlight == {i \in 1..Len(unit) : InFlight(i)}

\* C12 as claimed (SpecGen): in the MCQ pipeline an expansion suspends at
\* its model calls: while it is in flight, a task of the gather that has not
\* run yet can start, so that two expansions are in flight together; in the
\* Content pipeline at most one expansion is in flight; and the MCQ response
\* is produced only after every task has returned or raised.
C12_ExpansionsOverlap ==
    /\ (pipeline = "mcq" /\ genPc = "gather") =>
          \A i \in 1..Len(unit) : \A j \in 1..Len(unit) :
              (InFlight(i) /\ unit[j] = "created") => ENABLED McqTaskStart(j)
    /\ pipeline = "content" => Cardinality(ExpansionsInFlight) <= 1
    /\ (pipeline = "mcq" /\ genResponse.status # 0 /\ unit # <<>>
            /\ genResponse.error # "missing_unit_title") =>
          \A i \in 1..Len(unit) : unit[i] \in Settled

\* what the code does instead (SpecGen): in neither pipeline are two
\* expansions ever in flight together, the task in flight is the one that
\* holds the thread, and the MCQ response comes after every task settled.
C12_OneExpansionAtATime ==
    /\ Cardinality(ExpansionsInFlight) <= 1
    /\ \A i \in 1..Len(unit) : InFlight(i) <=> running = i
    /\ (pipeline = "mcq" /\ genResponse.status # 0 /\ unit # <<>>
            /\ genResponse.error # "missing_unit_title") =>
          \A i \in 1..Len(unit) : unit[i] \in Settled

\* the MCQ tasks run one after the other: the first has raised, the second
\* is at its MCQ call, the third has not run yet
C12_SequentialRun ==
    /\ pipeline = "mcq"
    /\ genPc = "gather"
    /\ Len(unit) = 3
    /\ unit[1] = "failed_structure"
    /\ unit[2] = "structured"
    /\ unit[3] = "created"

\* stub k is the first one without the unitTitle key
FirstUntitled(k) ==
    /\ k \in 1..Len(stubs)
    /\ stubs[k] = "untitled"
    /\ \A j \in 1..(k - 1) : stubs[j] = "titled"

\* C13 (SpecGen): a skeleton with a stub that lacks unitTitle never gives a
\* 200 response: the request ends with status 500 and no units, whatever
\* the other stubs are and however their expansions went.  The stub is not
\* counted as a failed unit.  In the Content pipeline the stubs before it
\* have been expanded by then and no stub after it is ever started; in the
\* MCQ pipeline no task has run at all.
C13_UntitledStubFailsRequest ==
    \A k \in 1..Len(stubs) : FirstUntitled(k) =>
        /\ unit[k] \notin Settled
        /\ attempts[k] = 0
        /\ \A j \in (k + 1)..Len(stubs) : attempts[j] = 0
        /\ pipeline = "mcq" => \A j \in 1..Len(stubs) : attempts[j] = 0
        /\ genResponse.status # 200
        /\ genPc = "done" =>
              /\ genResponse = ServerError("missing_unit_title")
              /\ pipeline = "content" => \A j \in 1..(k - 1) : unit[j] \in Settled

\* the Content pipeline expanded the first stub with success, met the second
\* without a title, and answered 500 with the third never started
C13_Witness ==
    /\ pipeline = "content"
    /\ genPc = "done"
    /\ stubs = <<"titled", "untitled", "titled">>
    /\ unit = <<"ok", "new", "new">>
    /\ detailed_units # <<>>
    /\ genResponse.status = 500

====
